---- MODULE Spec2Model ----
(***************************************************************************)
(* go-go-try: Golang style [error, value] result tuples.                   *)
(*                                                                         *)
(* The module models one call of the library on a JavaScript event loop:   *)
(* either the bounded-concurrency batch executor (goTryAll / goTryAllRaw,  *)
(* src/src/goTryAll.ts) or the single-operation wrapper goTry.  A step of  *)
(* the model is one run-to-completion segment of JavaScript (the code      *)
(* between two suspension points) or one settlement of a computation by    *)
(* the environment.                                                        *)
(***************************************************************************)
EXTENDS Integers, Sequences, FiniteSets, TLC

(***************************************************************************)
(* Bounds of the model.                                                    *)
(***************************************************************************)
MaxItems == 3
MaxConcurrency == 2
\* the number of items of each of two invocations that run interleaved
PairItems == 2

(***************************************************************************)
(* JavaScript values.  A value is a record whose field t is its kind.      *)
(***************************************************************************)
Undefined == [t |-> "undefined"]
Null == [t |-> "null"]
Str(s) == [t |-> "string", s |-> s]
Num(n) == [t |-> "number", n |-> n]
Bool(b) == [t |-> "boolean", b |-> b]
Func == [t |-> "function"]
Sym == [t |-> "symbol", description |-> "x"]
PromiseItem == [t |-> "promise"]
\* a plain object literal; fields is the list of its own enumerable
\* properties, circular says that one further property refers to the object
PlainObj(fields, circular) == [t |-> "object", fields |-> fields, circular |-> circular]
\* an instance of Error (cls "Error") or of a class made by taggedError(tag)
ErrorObj(cls, tag, message, cause) ==
    [t |-> "error", cls |-> cls, tag |-> tag, message |-> message, cause |-> cause]
PlainError(m) == ErrorObj("Error", Undefined, Str(m), Undefined)

\* typeof v
TypeOf(v) ==
    CASE v.t \in {"null", "object", "error", "promise"} -> "object"
      [] OTHER -> v.t

\* 'message' in v, for a v with typeof v === 'object' and v !== null
HasMessage(v) ==
    \/ v.t = "error"
    \/ v.t = "object" /\ \E i \in 1..Len(v.fields) : v.fields[i].k = "message"

\* v.message, for a v that has the property
MessageOf(v) ==
    IF v.t = "error" THEN v.message
    ELSE LET i == CHOOSE j \in 1..Len(v.fields) : v.fields[j].k = "message"
         IN v.fields[i].v

Digit == <<"0", "1", "2", "3", "4", "5", "6", "7", "8", "9">>

RECURSIVE NatToString(_)
NatToString(n) ==
    IF n < 10 THEN Digit[n + 1]
    ELSE NatToString(n \div 10) \o Digit[(n % 10) + 1]

\* Number.prototype.toString for an integer
NumberToString(n) == IF n < 0 THEN "-" \o NatToString(-n) ELSE NatToString(n)

\* JSON.stringify(v) throws (TypeError: Converting circular structure to JSON)
RECURSIVE JSONThrows(_)
JSONThrows(v) ==
    /\ v.t = "object"
    /\ \/ v.circular
       \/ \E i \in 1..Len(v.fields) : JSONThrows(v.fields[i].v)

\* JSON.stringify(v) when it does not throw: a string, or undefined for a
\* value JSON cannot represent (undefined, a function, a symbol)
RECURSIVE JSONStringify(_)
RECURSIVE JSONMembers(_, _)
JSONMembers(fields, first) ==
    IF fields = <<>> THEN ""
    ELSE LET j == JSONStringify(Head(fields).v)
         IN IF j = Undefined THEN JSONMembers(Tail(fields), first)
            ELSE (IF first THEN "" ELSE ",") \o "\"" \o Head(fields).k \o "\":" \o j.s
                 \o JSONMembers(Tail(fields), FALSE)
JSONStringify(v) ==
    CASE v.t \in {"undefined", "function", "symbol"} -> Undefined
      [] v.t = "null" -> Str("null")
      [] v.t = "string" -> Str("\"" \o v.s \o "\"")
      [] v.t = "number" -> Str(NumberToString(v.n))
      [] v.t = "boolean" -> Str(IF v.b THEN "true" ELSE "false")
      [] v.t = "object" -> Str("{" \o JSONMembers(v.fields, TRUE) \o "}")
      [] v.t \in {"error", "promise"} -> Str("{}")

\* String(v)
StringOf(v) ==
    CASE v.t = "undefined" -> "undefined"
      [] v.t = "null" -> "null"
      [] v.t = "string" -> v.s
      [] v.t = "number" -> NumberToString(v.n)
      [] v.t = "boolean" -> (IF v.b THEN "true" ELSE "false")
      [] v.t = "function" -> "() => {}"
      [] v.t = "symbol" -> "Symbol(" \o v.description \o ")"
      [] v.t = "object" -> "[object Object]"
      [] v.t = "promise" -> "[object Promise]"
      [] v.t = "error" -> v.cls \o ": " \o v.message.s

\* a ?? b
Coalesce(a, b) == IF a.t \in {"undefined", "null"} THEN b ELSE a

(***************************************************************************)
(* src/src/internals.ts                                                    *)
(***************************************************************************)
\* faulty variant: every caught value is converted with String()
getErrorMessage_String(error) == Str(StringOf(error))

getErrorMessage(error) ==
    IF error = Undefined THEN Str("undefined")
    ELSE IF TypeOf(error) = "string" THEN error
    ELSE IF /\ TypeOf(error) = "object"
            /\ error # Null
            /\ HasMessage(error)
            /\ TypeOf(MessageOf(error)) = "string"
         THEN MessageOf(error)
    ELSE IF JSONThrows(error) THEN Str(StringOf(error))
    ELSE JSONStringify(error)

\* faulty variant: no value is recognised as a promise
isPromise_Never(value) == FALSE

isPromise(value) == value.t = "promise"

isError(value) == value.t = "error"

(***************************************************************************)
(* src/src/result-helpers.ts                                               *)
(***************************************************************************)
isSuccess(result) == result[1] = Undefined

isFailure(result) == result[1] # Undefined

success(value) == <<Undefined, value>>

failure(error) == <<error, Undefined>>

(***************************************************************************)
(* src/src/tagged-error.ts, src/src/goTryAll.ts: error wrapping            *)
(***************************************************************************)
\* the class taggedError(tag) returns
taggedError(tag) == [t |-> "class", tag |-> tag]

\* new cls(message, { cause }) for a class made by taggedError
NewTagged(cls, message, cause) == ErrorObj(cls.tag, Str(cls.tag), Str(message), cause)

UnknownError == taggedError("UnknownError")

\* faulty variant: no caught value is recognised as a tagged error
isTaggedError_Never(err) == FALSE

\* isError(err) && '_tag' in err && typeof err._tag === 'string'
isTaggedError(err) == isError(err) /\ TypeOf(err.tag) = "string"

\* faulty variant: the caught error is not handed on as the cause
WithCause_Dropped(err) == Undefined

\* { cause: err }
WithCause(err) == err

\* faulty variant: the behaviour of an earlier goTryRaw, which with no class
\* given hands back a caught Error as it is and makes a plain Error of the rest
wrapError_Legacy(err, errorClass, systemErrorClass) ==
    IF errorClass = Undefined /\ systemErrorClass = Undefined
    THEN IF err = Undefined THEN PlainError("undefined")
         ELSE IF isError(err) THEN err
         ELSE PlainError(StringOf(err))
    ELSE IF errorClass = Undefined /\ isTaggedError(err) THEN err
    ELSE IF err = Undefined
         THEN NewTagged(Coalesce(errorClass, systemErrorClass), "undefined", Undefined)
    ELSE IF isError(err)
         THEN NewTagged(Coalesce(errorClass, systemErrorClass), err.message.s, err)
    ELSE NewTagged(Coalesce(errorClass, systemErrorClass), StringOf(err), Undefined)

wrapError(err, errorClass, systemErrorClass) ==
    IF errorClass # Undefined
    THEN IF err = Undefined THEN NewTagged(errorClass, "undefined", Undefined)
         ELSE IF isError(err) THEN NewTagged(errorClass, err.message.s, WithCause(err))
         ELSE NewTagged(errorClass, StringOf(err), Undefined)
    ELSE LET actualSystemErrorClass == Coalesce(systemErrorClass, UnknownError)
         IN IF isTaggedError(err) THEN err
            ELSE IF err = Undefined
                 THEN NewTagged(actualSystemErrorClass, "undefined", Undefined)
            ELSE IF isError(err)
                 THEN NewTagged(actualSystemErrorClass, err.message.s, WithCause(err))
            ELSE NewTagged(actualSystemErrorClass, StringOf(err), Undefined)

(***************************************************************************)
(* The inputs and the outcomes the environment may produce.                *)
(***************************************************************************)
\* options.concurrency: omitted, negative, 0, or a positive bound
ConcurrencyOptions == {Undefined} \cup {Num(c) : c \in -1..MaxConcurrency}

\* { errorClass, systemErrorClass } of goTryAllRaw (mutually exclusive)
NoClasses == [errorClass |-> Undefined, systemErrorClass |-> Undefined]
RawClassOptions ==
    { NoClasses,
      [errorClass |-> taggedError("DatabaseError"), systemErrorClass |-> Undefined],
      [errorClass |-> Undefined, systemErrorClass |-> taggedError("SystemError")] }

BatchOps == {"goTryAll", "goTryAllRaw"}

\* what an item of a batch may fulfil with, reject with, or (a factory) throw
BatchFulfilValues == {Str("a"), Undefined}
BatchRejectReasons == {PlainError("fail1"), Func}
BatchThrownValues == {PlainError("fail1")}
\* goTryAllRaw: a rejection may also carry a tagged error
RawBatchRejectReasons ==
    BatchRejectReasons \cup
       {NewTagged(taggedError("NetworkError"), "network timeout", Undefined)}

\* what the operation given to goTry may return or fulfil with
ReturnValues == {Undefined, Null, Num(0), Str(""), Bool(FALSE), Str("value")}
\* what it may throw or reject with
ThrownValues ==
    { Undefined, Null, Str("string error"), Num(42), PlainError("boom"),
      NewTagged(taggedError("DatabaseError"), "db error", Undefined),
      PlainObj(<<[k |-> "a", v |-> Num(1)]>>, FALSE),
      PlainObj(<<[k |-> "message", v |-> Str("plain message")]>>, FALSE),
      PlainObj(<<[k |-> "message", v |-> Num(7)]>>, FALSE),
      PlainObj(<<[k |-> "a", v |-> Num(1)]>>, TRUE),
      Func, Sym }

\* with two invocations each item either fulfils or rejects, with one value
PairFulfilValues == {Str("a")}
PairRejectReasons == {PlainError("fail1")}

FulfilValues(o) ==
    IF o = "pair" THEN PairFulfilValues
    ELSE IF o \in BatchOps THEN BatchFulfilValues
    ELSE ReturnValues
RejectReasons(o) ==
    IF o = "pair" THEN PairRejectReasons
    ELSE IF o = "goTryAll" THEN BatchRejectReasons
    ELSE IF o = "goTryAllRaw" THEN RawBatchRejectReasons
    ELSE ThrownValues

SingleOps == {"goTry", "goTryRaw", "goTryOr"}

\* the defaultValue argument of goTryOr: a value, or a function computing it
DefaultValues == {Str("default"), Func}
\* what a function given as defaultValue returns
DefaultComputed == Str("computed")

(***************************************************************************)
(* State.                                                                  *)
(***************************************************************************)
VARIABLES
    op,            \* the exported function that was called
    options,       \* its options argument
    items,         \* its first argument: the items of a batch, or <<value>>
    phase,         \* where the call is
    isFactoryMode, \* runWithConcurrency: isFactoryMode
    index,         \* runWithConcurrency: the shared cursor (0-based)
    results,       \* runWithConcurrency: the settlement array
    workerCount,   \* runWithConcurrency: workerCount
    workers,       \* runWithConcurrency: the worker() calls, in start order
    comp,          \* the computation behind each item
    attempts,      \* how often the library invoked or awaited each item
    owner,         \* the worker that claimed each slot (0: none)
    settled,       \* what runWithConcurrency returned
    out,           \* the [errors, results] pair a batch call fulfilled with
    result,        \* the [error, value] tuple a single-operation call produced
    sync,          \* the single-operation call returned its tuple synchronously
    other          \* a second invocation on the same event loop, while the
                   \* variables above hold the invocation whose code runs

vars == <<op, options, items, phase, isFactoryMode, index, results, workerCount,
          workers, comp, attempts, owner, settled, out, result, sync, other>>

\* there is no second invocation
NoInvocation == [phase |-> "none"]

\* a batch of one item has the outcomes a single operation may have
OutcomesOf ==
    IF other.phase # "none" THEN "pair"
    ELSE IF op \in BatchOps /\ Len(items) = 1 THEN "single"
    ELSE op
\* what a factory of the batch may throw when it is invoked
FactoryThrows == IF OutcomesOf = "single" THEN ThrownValues ELSE BatchThrownValues

NotStarted == [state |-> "notstarted", val |-> Undefined]
Pending == [state |-> "pending", val |-> Undefined]
Fulfilled(v) == [state |-> "fulfilled", val |-> v]
RejectedWith(v) == [state |-> "rejected", val |-> v]
Threw(v) == [state |-> "threw", val |-> v]
Returned(v) == [state |-> "returned", val |-> v]

\* an array slot that was never assigned
Hole == [status |-> "empty"]
\* PromiseSettledResult
FulfilledResult(value) == [status |-> "fulfilled", value |-> value]
RejectedResult(reason) == [status |-> "rejected", reason |-> reason]

SettledResultOf(c) ==
    IF c.state = "fulfilled" THEN FulfilledResult(c.val) ELSE RejectedResult(c.val)

IsSettled(c) == c.state \in {"fulfilled", "rejected"}

\* faulty variant: the larger of the two
Min_Max(a, b) == IF a < b THEN b ELSE a

\* Math.min
Min(a, b) == IF a < b THEN a ELSE b

NoOutput == [errors |-> <<>>, results |-> <<>>]

InitBatch ==
    /\ op \in BatchOps
    /\ \E c \in ConcurrencyOptions, cls \in RawClassOptions :
          /\ op = "goTryAll" => cls = NoClasses
          /\ options = [concurrency |-> c, errorClass |-> cls.errorClass,
                        systemErrorClass |-> cls.systemErrorClass]
    /\ \E n \in 0..MaxItems, kind \in {Func, PromiseItem} :
          /\ items = [i \in 1..n |-> kind]
          \* a promise is a computation that was started before the call
          /\ comp = [i \in 1..n |-> IF kind = PromiseItem THEN Pending ELSE NotStarted]
    /\ phase = "idle"
    /\ isFactoryMode = FALSE
    /\ index = 0
    /\ results = <<>>
    /\ workerCount = 0
    /\ workers = <<>>
    /\ attempts = [i \in 1..Len(items) |-> 0]
    /\ owner = [i \in 1..Len(items) |-> 0]
    /\ settled = <<>>
    /\ out = NoOutput
    /\ result = <<>>
    /\ sync = FALSE
    /\ other = NoInvocation

\* the value, function or promise handed to a single-operation wrapper
SingleInputs == ReturnValues \cup {Func, PromiseItem}

InitSingle ==
    /\ op \in SingleOps
    /\ \E cls \in RawClassOptions :
          /\ op # "goTryRaw" => cls = NoClasses
          /\ options = [concurrency |-> Undefined, errorClass |-> cls.errorClass,
                        systemErrorClass |-> cls.systemErrorClass]
    /\ \E x \in SingleInputs, d \in DefaultValues :
          \* goTryOr(value, defaultValue); goTry(value); goTryRaw(value, options)
          /\ items = IF op = "goTryOr" THEN <<x, d>> ELSE <<x>>
          /\ op # "goTryOr" => d = Func
          /\ comp = [i \in 1..Len(items) |->
                        IF i = 1 /\ x = PromiseItem THEN Pending ELSE NotStarted]
    /\ phase = "idle"
    /\ isFactoryMode = FALSE
    /\ index = 0
    /\ results = <<>>
    /\ workerCount = 0
    /\ workers = <<>>
    /\ attempts = [i \in 1..Len(items) |-> 0]
    /\ owner = [i \in 1..Len(items) |-> 0]
    /\ settled = <<>>
    /\ out = NoOutput
    /\ result = <<>>
    /\ sync = FALSE
    /\ other = NoInvocation

(***************************************************************************)
(* src/src/goTryAll.ts: runWithConcurrency                                 *)
(***************************************************************************)
\* options?.concurrency ?? 0
ConcurrencyOf(o) == Coalesce(o.concurrency, Num(0)).n

\* faulty variant: the empty input is not short-circuited
isEmpty_Never(its) == FALSE

\* items.length === 0
isEmpty(its) == Len(its) = 0

\* what the call returns for an empty input
EmptySettled == <<>>

\* typeof items[0] === 'function' (items[0] of an empty array is undefined)
\* a variant whose workers claim the slots from the far end
CurrentIndex_FromEnd(idx, n) == n - 1 - idx

\* const currentIndex = index++: the slot a worker claims is the cursor's
\* value before the increment
CurrentIndex(idx, n) == idx

\* a variant that decides the mode from the last element
DetectFactoryMode_Last(its) == Len(its) > 0 /\ TypeOf(its[Len(its)]) = "function"

DetectFactoryMode(its) == Len(its) > 0 /\ TypeOf(its[1]) = "function"

\* !isFactoryMode && (concurrency <= 0)
FastPath(factoryMode, concurrency) == ~factoryMode /\ concurrency <= 0

\* new Array(items.length)
NewResults(n) == [i \in 1..n |-> Hole]

\* faulty variant: a bound of 0 or less is taken for a bound of one
WorkerCountOf_ZeroIsOne(concurrency, n) == IF concurrency <= 0 THEN 1 ELSE Min(concurrency, n)

\* faulty variant: one worker per item, whatever the bound
WorkerCountOf_Unbounded(concurrency, n) == n

\* concurrency <= 0 ? items.length : Math.min(concurrency, items.length)
WorkerCountOf(concurrency, n) == IF concurrency <= 0 THEN n ELSE Min(concurrency, n)

\* faulty variant: off by one, the last slot is never claimed
HasNext_OffByOne(idx, n) == idx < n - 1

\* while (index < items.length)
HasNext(idx, n) == idx < n

\* faulty variant: the cursor is advanced twice for one claim
NextIndex_Skip(idx) == idx + 2

\* faulty variant: the cursor is read but not advanced
NextIndex_NoIncrement(idx) == idx

\* index++ : the cursor after a claim
NextIndex(idx) == idx + 1

\* faulty variant: the write goes through the shared cursor instead of the
\* index captured at the claim
SlotWritten_Cursor(currentIndex, idx) == idx - 1

\* results[currentIndex] = ... : the slot a worker writes, given the index it
\* claimed and the cursor at the time of the write
SlotWritten(currentIndex, idx) == currentIndex

\* faulty variant: a catch that does not bind what was thrown
Catch_Unbound(reason) == RejectedResult(Undefined)

\* faulty variant: no catch, the failure escapes the worker
Catch_Rethrow(reason) == [status |-> "uncaught", reason |-> reason]

\* try { ... } catch (reason) { results[currentIndex] = { status: 'rejected', reason } }
Catch(reason) == RejectedResult(reason)

\* faulty variant: an if in place of the while, a worker handles one slot
AfterRecord_NoLoop(status) == "done"

\* faulty variant: a worker stops pulling after it recorded a rejection
\* a variant whose worker returns after its first fulfilled slot
AfterRecord_StopOnFulfilled(status) == IF status = "fulfilled" THEN "done" ELSE "running"

AfterRecord_StopOnRejection(status) == IF status = "rejected" THEN "done" ELSE "running"

\* the worker after it recorded a settlement: back to the loop head
AfterRecord(status) == "running"

\* faulty variant: the await is missing, the worker goes straight on
AwaitPc_Missing == "running"

\* await: the worker suspends until the computation of its slot has settled
AwaitPc == "awaiting"

\* the computation an await (or Promise.allSettled) of item waits for: the
\* promise's own, or for an item that is no promise one fulfilled with the item
Awaited(item, c) == IF item.t = "promise" THEN c ELSE Fulfilled(item)

\* no JavaScript of the call is on the stack: the event loop may run a task
Suspended ==
    /\ phase # "spawning"
    /\ \A w \in 1..Len(workers) : workers[w].pc # "running"

\* runWithConcurrency up to the start of the first worker (lines 46-59, 78)
Call ==
    /\ phase = "idle"
    /\ op \in BatchOps
    /\ LET concurrency == ConcurrencyOf(options)
           n == Len(items)
       IN IF isEmpty(items)
          THEN /\ settled' = EmptySettled
               /\ phase' = "returned"
               /\ UNCHANGED <<isFactoryMode, index, results, workerCount, attempts,
                              comp>>
          ELSE LET factoryMode == DetectFactoryMode(items)
               IN /\ isFactoryMode' = factoryMode
                  /\ IF FastPath(factoryMode, concurrency)
                     THEN \* Promise.allSettled(items) subscribes to every item
                          /\ phase' = "allSettled"
                          /\ attempts' = [i \in 1..n |-> attempts[i] + 1]
                          /\ comp' = [i \in 1..n |-> Awaited(items[i], comp[i])]
                          /\ UNCHANGED <<index, results, workerCount>>
                     ELSE /\ results' = NewResults(n)
                          /\ index' = 0
                          /\ workerCount' = WorkerCountOf(concurrency, n)
                          /\ phase' = "spawning"
                          /\ UNCHANGED <<attempts, comp>>
                  /\ UNCHANGED settled
    /\ UNCHANGED <<other, op, options, items, workers, owner, out, result, sync>>

\* Promise.allSettled resolves once every item has settled
AllSettled ==
    /\ phase = "allSettled"
    /\ \A i \in 1..Len(items) : IsSettled(comp[i])
    /\ settled' = [i \in 1..Len(items) |-> SettledResultOf(comp[i])]
    /\ phase' = "returned"
    /\ UNCHANGED <<other, op, options, items, isFactoryMode, index, results, workerCount,
                   workers, comp, attempts, owner, out, result, sync>>

\* for (let i = 0; i < workerCount; i++) workers.push(worker()): one call of
\* worker(), which runs synchronously up to its first await
StartWorker ==
    /\ phase = "spawning"
    /\ \A w \in 1..Len(workers) : workers[w].pc # "running"
    /\ Len(workers) < workerCount
    /\ workers' = Append(workers, [pc |-> "running", currentIndex |-> -1])
    /\ UNCHANGED <<other, op, options, items, phase, isFactoryMode, index, results,
                   workerCount, comp, attempts, owner, settled, out, result, sync>>

\* await Promise.all(workers): runWithConcurrency suspends
AwaitWorkers ==
    /\ phase = "spawning"
    /\ \A w \in 1..Len(workers) : workers[w].pc # "running"
    /\ Len(workers) >= workerCount
    /\ phase' = "waiting"
    /\ UNCHANGED <<other, op, options, items, isFactoryMode, index, results, workerCount,
                   workers, comp, attempts, owner, settled, out, result, sync>>

\* the record a worker makes of a settlement, and where the worker goes next
Record(w, currentIndex, res) ==
    /\ results' = [results EXCEPT ![SlotWritten(currentIndex, index') + 1] = res]
    /\ workers' = [workers EXCEPT ![w] =
                      [pc |-> AfterRecord(res.status), currentIndex |-> currentIndex]]

\* what happens to a worker when its try block throws reason
Thrown(w, currentIndex, reason) ==
    LET c == Catch(reason)
    IN IF c.status = "rejected"
       THEN Record(w, currentIndex, c)
       ELSE \* not caught: the async function worker() rejects
            /\ workers' = [workers EXCEPT ![w] =
                              [pc |-> "failed", currentIndex |-> currentIndex]]
            /\ UNCHANGED results

\* faulty variant: item() is called outside the try block, so that what it
\* throws is not caught and the async function worker() rejects
FactoryThrew_Uncaught(w, currentIndex, reason) ==
    /\ workers' = [workers EXCEPT ![w] =
                      [pc |-> "failed", currentIndex |-> currentIndex]]
    /\ UNCHANGED results

\* item() is called inside the try block: what it throws lands in the catch
\* that also takes the rejection of an awaited promise
FactoryThrew(w, currentIndex, reason) == Thrown(w, currentIndex, reason)

\* one pass of the worker loop, from the loop test to the await (lines 62-69)
WorkerLoop(w) ==
    /\ phase \in {"spawning", "waiting"}
    /\ w \in 1..Len(workers)
    /\ workers[w].pc = "running"
    /\ IF HasNext(index, Len(items))
       THEN LET currentIndex == CurrentIndex(index, Len(items))
                i == currentIndex + 1
            IN /\ index' = NextIndex(index)
               /\ owner' = [owner EXCEPT ![i] = w]
               /\ attempts' = [attempts EXCEPT ![i] = @ + 1]
               /\ IF isFactoryMode
                  THEN IF TypeOf(items[i]) = "function"
                       THEN \/ \* the factory throws synchronously
                               \E v \in FactoryThrows :
                                  /\ comp' = [comp EXCEPT ![i] = Threw(v)]
                                  /\ FactoryThrew(w, currentIndex, v)
                            \/ \* the factory returns a promise: await it
                               /\ comp' = [comp EXCEPT ![i] = Pending]
                               /\ workers' = [workers EXCEPT ![w] =
                                     [pc |-> AwaitPc, currentIndex |-> currentIndex]]
                               /\ UNCHANGED results
                       ELSE \* TypeError: item is not a function
                            /\ comp' = [comp EXCEPT ![i] = Threw(PlainError("item is not a function"))]
                            /\ FactoryThrew(w, currentIndex,
                                            PlainError("item is not a function"))
                  ELSE \* await the item
                       /\ workers' = [workers EXCEPT ![w] =
                             [pc |-> AwaitPc, currentIndex |-> currentIndex]]
                       /\ comp' = [comp EXCEPT ![i] = Awaited(items[i], @)]
                       /\ UNCHANGED results
       ELSE /\ workers' = [workers EXCEPT ![w] =
                              [pc |-> "done", currentIndex |-> workers[w].currentIndex]]
            /\ UNCHANGED <<index, owner, attempts, comp, results>>
    /\ UNCHANGED <<other, op, options, items, phase, isFactoryMode, workerCount, settled,
                   out, result, sync>>

\* the awaited computation has settled: the worker resumes and records it
\* (lines 70-73)
Resume(w) ==
    /\ Suspended
    /\ phase = "waiting"
    /\ w \in 1..Len(workers)
    /\ workers[w].pc = "awaiting"
    /\ LET currentIndex == workers[w].currentIndex
           c == comp[currentIndex + 1]
       IN /\ IsSettled(c)
          /\ index' = index
          /\ IF c.state = "fulfilled"
             THEN Record(w, currentIndex, FulfilledResult(c.val))
             ELSE Thrown(w, currentIndex, c.val)
    /\ UNCHANGED <<other, op, options, items, phase, isFactoryMode, workerCount, comp,
                   attempts, owner, settled, out, result, sync>>

\* faulty variant: Promise.race, fulfilled by the first worker that returns
PoolFulfilled_Race(ws) == \E w \in 1..Len(ws) : ws[w].pc = "done"

\* Promise.all(workers) is fulfilled: every worker() has returned
PoolFulfilled(ws) == \A w \in 1..Len(ws) : ws[w].pc = "done"

\* Promise.all(workers) settles: it fulfils when every worker has returned and
\* rejects as soon as one worker has rejected (lines 86-87)
PoolSettled ==
    /\ Suspended
    /\ phase = "waiting"
    /\ IF \E w \in 1..Len(workers) : workers[w].pc = "failed"
       THEN /\ phase' = "rejected"
            /\ UNCHANGED settled
       ELSE /\ PoolFulfilled(workers)
            /\ settled' = results
            /\ phase' = "returned"
    /\ UNCHANGED <<other, op, options, items, isFactoryMode, index, results, workerCount,
                   workers, comp, attempts, owner, out, result, sync>>

\* the environment settles a computation that is in flight
Settle(i) ==
    /\ Suspended
    /\ i \in 1..Len(items)
    /\ comp[i].state = "pending"
    /\ \/ \E v \in FulfilValues(OutcomesOf) : comp' = [comp EXCEPT ![i] = Fulfilled(v)]
       \/ \E r \in RejectReasons(OutcomesOf) : comp' = [comp EXCEPT ![i] = RejectedWith(r)]
    /\ UNCHANGED <<other, op, options, items, phase, isFactoryMode, index, results,
                   workerCount, workers, attempts, owner, settled, out, result, sync>>

(***************************************************************************)
(* src/src/goTryAll.ts: goTryAll and goTryAllRaw after the await           *)
(***************************************************************************)
\* errors[i] of a fulfilled slot
ErrorOfFulfilled == Undefined

\* faulty variant: the reason is left in the value slot
ResultOfRejected_Reason(reason) == reason

\* results[i] of a rejected slot
ResultOfRejected(reason) == Undefined

\* the error slot of a rejected slot: getErrorMessage(reason) in goTryAll,
\* wrapError(reason, errorClass, systemErrorClass) in goTryAllRaw
ErrorOfRejected(o, reason) ==
    IF o = "goTryAll" THEN getErrorMessage(reason)
    ELSE wrapError(reason, options.errorClass, options.systemErrorClass)

\* the two arrays the loop over settled builds
Assemble(o) ==
    [errors |-> [i \in 1..Len(settled) |->
                    IF settled[i].status = "fulfilled" THEN ErrorOfFulfilled
                    ELSE ErrorOfRejected(o, settled[i].reason)],
     results |-> [i \in 1..Len(settled) |->
                    IF settled[i].status = "fulfilled" THEN settled[i].value
                    ELSE ResultOfRejected(settled[i].reason)]]

\* reading item.status of a slot that was never assigned throws a TypeError,
\* which rejects the promise the call returned
Collect(o) ==
    /\ phase = "returned"
    /\ IF \E i \in 1..Len(settled) : settled[i] = Hole
       THEN /\ phase' = "rejected"
            /\ UNCHANGED out
       ELSE /\ out' = Assemble(o)
            /\ phase' = "done"
    /\ UNCHANGED <<other, op, options, items, isFactoryMode, index, results, workerCount,
                   workers, comp, attempts, owner, settled, result, sync>>

goTryAll ==
    /\ op = "goTryAll"
    /\ Collect("goTryAll")

goTryAllRaw ==
    /\ op = "goTryAllRaw"
    /\ Collect("goTryAllRaw")

(***************************************************************************)
(* goTry (src/unnamed/part_007)                                            *)
(***************************************************************************)
\* the synchronous part of goTry: lines 33-44
goTry ==
    /\ phase = "idle"
    /\ op = "goTry"
    /\ LET value == items[1]
       IN IF TypeOf(value) = "function"
          THEN /\ attempts' = [attempts EXCEPT ![1] = @ + 1]
               /\ \/ \* value() returns a value that is not a promise
                     \E v \in ReturnValues :
                        /\ comp' = [comp EXCEPT ![1] = Returned(v)]
                        /\ result' = success(v)
                        /\ sync' = TRUE
                        /\ phase' = "done"
                  \/ \* value() returns a promise: .then().catch() is attached
                     /\ comp' = [comp EXCEPT ![1] = Pending]
                     /\ phase' = "pending"
                     /\ UNCHANGED <<result, sync>>
                  \/ \* value() throws
                     \E e \in ThrownValues :
                        /\ comp' = [comp EXCEPT ![1] = Threw(e)]
                        /\ result' = failure(getErrorMessage(e))
                        /\ sync' = TRUE
                        /\ phase' = "done"
          ELSE IF isPromise(value)
          THEN /\ attempts' = [attempts EXCEPT ![1] = @ + 1]
               /\ phase' = "pending"
               /\ UNCHANGED <<comp, result, sync>>
          ELSE /\ result' = success(value)
               /\ sync' = TRUE
               /\ phase' = "done"
               /\ UNCHANGED <<comp, attempts>>
    /\ UNCHANGED <<other, op, options, items, isFactoryMode, index, results, workerCount,
                   workers, owner, settled, out>>

\* the callbacks of goTry: lines 38-39
goTryThen ==
    /\ phase = "pending"
    /\ op = "goTry"
    /\ IsSettled(comp[1])
    /\ result' = IF comp[1].state = "fulfilled" THEN success(comp[1].val)
                 ELSE failure(getErrorMessage(comp[1].val))
    /\ phase' = "done"
    /\ UNCHANGED <<other, op, options, items, isFactoryMode, index, results, workerCount,
                   workers, comp, attempts, owner, settled, out, sync>>

(***************************************************************************)
(* goTryRaw (appended to src/unnamed/part_006)                             *)
(***************************************************************************)
\* the truthiness of a JavaScript value
Truthy(v) ==
    /\ v.t \notin {"undefined", "null"}
    /\ v.t = "number" => v.n # 0
    /\ v.t = "string" => v.s # ""
    /\ v.t = "boolean" => v.b

\* systemErrorClass ?? UnknownError
ActualSystemErrorClass(o) == Coalesce(o.systemErrorClass, UnknownError)

\* the closure wrapError of goTryRaw
goTryRawWrapError(err, errorClass, actualSystemErrorClass) ==
    IF Truthy(errorClass)
    THEN IF err = Undefined THEN NewTagged(errorClass, "undefined", Undefined)
         ELSE IF isError(err) THEN NewTagged(errorClass, err.message.s, WithCause(err))
         ELSE NewTagged(errorClass, StringOf(err), Undefined)
    ELSE IF Truthy(actualSystemErrorClass)
    THEN IF isTaggedError(err) THEN err
         ELSE IF err = Undefined
              THEN NewTagged(actualSystemErrorClass, "undefined", Undefined)
         ELSE IF isError(err)
              THEN NewTagged(actualSystemErrorClass, err.message.s, WithCause(err))
         ELSE NewTagged(actualSystemErrorClass, StringOf(err), Undefined)
    ELSE IF err = Undefined THEN PlainError("undefined")
    ELSE IF isError(err) THEN err
    ELSE PlainError(StringOf(err))

\* failure(wrapError(err)) in goTryRaw
goTryRawFailure(err) ==
    failure(goTryRawWrapError(err, options.errorClass, ActualSystemErrorClass(options)))

\* the synchronous part of goTryRaw: the try block and its catch
goTryRaw ==
    /\ phase = "idle"
    /\ op = "goTryRaw"
    /\ LET value == items[1]
       IN IF TypeOf(value) = "function"
          THEN /\ attempts' = [attempts EXCEPT ![1] = @ + 1]
               /\ \/ \* value() returns a value that is not a promise
                     \E v \in ReturnValues :
                        /\ comp' = [comp EXCEPT ![1] = Returned(v)]
                        /\ result' = success(v)
                        /\ sync' = TRUE
                        /\ phase' = "done"
                  \/ \* value() returns a promise: .then().catch() is attached
                     /\ comp' = [comp EXCEPT ![1] = Pending]
                     /\ phase' = "pending"
                     /\ UNCHANGED <<result, sync>>
                  \/ \* value() throws
                     \E e \in ThrownValues :
                        /\ comp' = [comp EXCEPT ![1] = Threw(e)]
                        /\ result' = goTryRawFailure(e)
                        /\ sync' = TRUE
                        /\ phase' = "done"
          ELSE IF isPromise(value)
          THEN /\ attempts' = [attempts EXCEPT ![1] = @ + 1]
               /\ phase' = "pending"
               /\ UNCHANGED <<comp, result, sync>>
          ELSE /\ result' = success(value)
               /\ sync' = TRUE
               /\ phase' = "done"
               /\ UNCHANGED <<comp, attempts>>
    /\ UNCHANGED <<other, op, options, items, isFactoryMode, index, results, workerCount,
                   workers, owner, settled, out>>

\* the callbacks of goTryRaw
goTryRawThen ==
    /\ phase = "pending"
    /\ op = "goTryRaw"
    /\ IsSettled(comp[1])
    /\ result' = IF comp[1].state = "fulfilled" THEN success(comp[1].val)
                 ELSE goTryRawFailure(comp[1].val)
    /\ phase' = "done"
    /\ UNCHANGED <<other, op, options, items, isFactoryMode, index, results, workerCount,
                   workers, comp, attempts, owner, settled, out, sync>>

(***************************************************************************)
(* goTryOr (src/src/index.ts), resolveDefault (src/src/internals.ts)       *)
(***************************************************************************)
\* faulty variant: a function given as default is returned, not called
resolveDefault_NotCalled(defaultValue) == [value |-> defaultValue, calls |-> 0]

\* typeof defaultValue === 'function' ? defaultValue() : defaultValue, with
\* the number of calls of defaultValue it makes
resolveDefault(defaultValue) ==
    IF TypeOf(defaultValue) = "function"
    THEN [value |-> DefaultComputed, calls |-> 1]
    ELSE [value |-> defaultValue, calls |-> 0]

\* [getErrorMessage(err), resolveDefault(defaultValue)]
goTryOrFailure(err, defaultValue) ==
    <<getErrorMessage(err), resolveDefault(defaultValue).value>>

\* the synchronous part of goTryOr: the try block and its catch
goTryOr ==
    /\ phase = "idle"
    /\ op = "goTryOr"
    /\ LET value == items[1]
           defaultValue == items[2]
       IN IF TypeOf(value) = "function"
          THEN \/ \* value() returns a value that is not a promise
                  \E v \in ReturnValues :
                     /\ attempts' = [attempts EXCEPT ![1] = @ + 1]
                     /\ comp' = [comp EXCEPT ![1] = Returned(v)]
                     /\ result' = success(v)
                     /\ sync' = TRUE
                     /\ phase' = "done"
               \/ \* value() returns a promise: .then().catch() is attached
                  /\ attempts' = [attempts EXCEPT ![1] = @ + 1]
                  /\ comp' = [comp EXCEPT ![1] = Pending]
                  /\ phase' = "pending"
                  /\ UNCHANGED <<result, sync>>
               \/ \* value() throws
                  \E e \in ThrownValues :
                     /\ attempts' = [attempts EXCEPT
                                       ![1] = @ + 1,
                                       ![2] = @ + resolveDefault(defaultValue).calls]
                     /\ comp' = [comp EXCEPT ![1] = Threw(e)]
                     /\ result' = goTryOrFailure(e, defaultValue)
                     /\ sync' = TRUE
                     /\ phase' = "done"
          ELSE IF isPromise(value)
          THEN /\ attempts' = [attempts EXCEPT ![1] = @ + 1]
               /\ phase' = "pending"
               /\ UNCHANGED <<comp, result, sync>>
          ELSE /\ result' = success(value)
               /\ sync' = TRUE
               /\ phase' = "done"
               /\ UNCHANGED <<comp, attempts>>
    /\ UNCHANGED <<other, op, options, items, isFactoryMode, index, results, workerCount,
                   workers, owner, settled, out>>

\* the callbacks of goTryOr
goTryOrThen ==
    /\ phase = "pending"
    /\ op = "goTryOr"
    /\ IsSettled(comp[1])
    /\ IF comp[1].state = "fulfilled"
       THEN /\ result' = success(comp[1].val)
            /\ UNCHANGED attempts
       ELSE /\ result' = goTryOrFailure(comp[1].val, items[2])
            /\ attempts' = [attempts EXCEPT ![2] = @ + resolveDefault(items[2]).calls]
    /\ phase' = "done"
    /\ UNCHANGED <<other, op, options, items, isFactoryMode, index, results, workerCount,
                   workers, comp, owner, settled, out, sync>>

Next ==
    \/ Call
    \/ AllSettled
    \/ StartWorker
    \/ AwaitWorkers
    \/ \E w \in 1..MaxItems + 1 : WorkerLoop(w)
    \/ \E w \in 1..MaxItems + 1 : Resume(w)
    \/ PoolSettled
    \/ \E i \in 1..MaxItems + 1 : Settle(i)
    \/ goTryAll
    \/ goTryAllRaw
    \/ goTry
    \/ goTryThen
    \/ goTryRaw
    \/ goTryRawThen
    \/ goTryOr
    \/ goTryOrThen

Init == InitBatch \/ InitSingle

Spec == Init /\ [][Next]_vars

\* the steps the JavaScript of the library takes
Library ==
    \/ Call
    \/ AllSettled
    \/ StartWorker
    \/ AwaitWorkers
    \/ \E w \in 1..MaxItems + 1 : WorkerLoop(w)
    \/ \E w \in 1..MaxItems + 1 : Resume(w)
    \/ PoolSettled
    \/ goTryAll
    \/ goTryAllRaw
    \/ goTry
    \/ goTryThen
    \/ goTryRaw
    \/ goTryRawThen
    \/ goTryOr
    \/ goTryOrThen

\* the event loop runs every continuation that is ready, and every
\* computation in flight settles at some time
FairSpec ==
    /\ Spec
    /\ WF_vars(Library)
    /\ \A i \in 1..MaxItems + 1 : WF_vars(Settle(i))

(***************************************************************************)
(* Two invocations on one event loop (src/src/goTryAll.ts: the locals of   *)
(* runWithConcurrency)                                                     *)
(***************************************************************************)
\* the invocation whose state is in the variables
Invocation ==
    [op |-> op, options |-> options, items |-> items, phase |-> phase,
     isFactoryMode |-> isFactoryMode, index |-> index, results |-> results,
     workerCount |-> workerCount, workers |-> workers, comp |-> comp,
     attempts |-> attempts, owner |-> owner, settled |-> settled, out |-> out,
     result |-> result, sync |-> sync]

\* a call of o(items, { concurrency: c }) that has not been made yet
NewInvocation(o, c, n, kind) ==
    [op |-> o,
     options |-> [concurrency |-> c, errorClass |-> Undefined,
                  systemErrorClass |-> Undefined],
     items |-> [i \in 1..n |-> kind],
     phase |-> "idle", isFactoryMode |-> FALSE, index |-> 0, results |-> <<>>,
     workerCount |-> 0, workers |-> <<>>,
     comp |-> [i \in 1..n |-> IF kind = PromiseItem THEN Pending ELSE NotStarted],
     attempts |-> [i \in 1..n |-> 0], owner |-> [i \in 1..n |-> 0],
     settled |-> <<>>, out |-> NoOutput, result |-> <<>>, sync |-> FALSE]

\* the invocations of a pair: batches of PairItems items run by one worker
PairInvocations ==
    {NewInvocation(o, Num(1), PairItems, kind) :
        o \in BatchOps, kind \in {Func, PromiseItem}}

\* faulty variant: a cursor at module level, one for all invocations
CursorOf_Shared(own, last) == last

\* `let index = 0` is a local of runWithConcurrency: the code of an
\* invocation reads the cursor of that invocation, not the one last written
CursorOf(own, last) == own

\* the event loop turns from a continuation of one invocation to one of the
\* other; it can do so only when no JavaScript is on the stack
Switch ==
    /\ other # NoInvocation
    /\ Suspended
    /\ other' = Invocation
    /\ op' = other.op
    /\ options' = other.options
    /\ items' = other.items
    /\ phase' = other.phase
    /\ isFactoryMode' = other.isFactoryMode
    /\ index' = CursorOf(other.index, index)
    /\ results' = other.results
    /\ workerCount' = other.workerCount
    /\ workers' = other.workers
    /\ comp' = other.comp
    /\ attempts' = other.attempts
    /\ owner' = other.owner
    /\ settled' = other.settled
    /\ out' = other.out
    /\ result' = other.result
    /\ sync' = other.sync

PairInit ==
    \E a, b \in PairInvocations :
       /\ op = a.op
       /\ options = a.options
       /\ items = a.items
       /\ phase = a.phase
       /\ isFactoryMode = a.isFactoryMode
       /\ index = a.index
       /\ results = a.results
       /\ workerCount = a.workerCount
       /\ workers = a.workers
       /\ comp = a.comp
       /\ attempts = a.attempts
       /\ owner = a.owner
       /\ settled = a.settled
       /\ out = a.out
       /\ result = a.result
       /\ sync = a.sync
       /\ other = b

PairNext ==
    \/ Call
    \/ StartWorker
    \/ AwaitWorkers
    \/ \E w \in 1..PairItems : WorkerLoop(w)
    \/ \E w \in 1..PairItems : Resume(w)
    \/ PoolSettled
    \/ \E i \in 1..PairItems : Settle(i)
    \/ goTryAll
    \/ goTryAllRaw
    \/ Switch

PairSpec == PairInit /\ [][PairNext]_vars

(***************************************************************************)
(* Arrays that mix promises and functions (src/src/goTryAll.ts:50-51)      *)
(***************************************************************************)
\* the arrays of 2..MaxItems items that hold a promise and a function
MixedItems ==
    {its \in UNION {[1..n -> {Func, PromiseItem}] : n \in 2..MaxItems} :
        \E i, j \in DOMAIN its : its[i] # its[j]}

MixedInit ==
    /\ op \in BatchOps
    /\ \E c \in ConcurrencyOptions :
          options = [concurrency |-> c, errorClass |-> Undefined,
                     systemErrorClass |-> Undefined]
    /\ items \in MixedItems
    \* a promise is a computation that was started before the call
    /\ comp = [i \in 1..Len(items) |->
                  IF items[i] = PromiseItem THEN Pending ELSE NotStarted]
    /\ phase = "idle"
    /\ isFactoryMode = FALSE
    /\ index = 0
    /\ results = <<>>
    /\ workerCount = 0
    /\ workers = <<>>
    /\ attempts = [i \in 1..Len(items) |-> 0]
    /\ owner = [i \in 1..Len(items) |-> 0]
    /\ settled = <<>>
    /\ out = NoOutput
    /\ result = <<>>
    /\ sync = FALSE
    /\ other = NoInvocation

MixedNext ==
    \/ Call
    \/ AllSettled
    \/ StartWorker
    \/ AwaitWorkers
    \/ \E w \in 1..MaxItems + 1 : WorkerLoop(w)
    \/ \E w \in 1..MaxItems + 1 : Resume(w)
    \/ PoolSettled
    \/ \E i \in 1..MaxItems + 1 : Settle(i)
    \/ goTryAll
    \/ goTryAllRaw

MixedSpec == MixedInit /\ [][MixedNext]_vars

(***************************************************************************)
(* Properties                                                              *)
(***************************************************************************)
Batch == op \in BatchOps
Done == Batch /\ phase = "done"
N == Len(items)
FactoryBatch == Batch /\ N > 0 /\ TypeOf(items[1]) = "function"
\* the item's computation ended in failure
Failed(i) == comp[i].state \in {"rejected", "threw"}
\* the item's computation has ended
Ended(i) == comp[i].state \in {"fulfilled", "rejected", "threw"}
InFlight == {i \in 1..N : comp[i].state = "pending"}
\* the settlement record of an ended computation
OutcomeOf(i) ==
    IF comp[i].state = "fulfilled" THEN FulfilledResult(comp[i].val)
    ELSE RejectedResult(comp[i].val)

\* C1: slot i of both returned arrays reports the outcome of item i (its
\* fulfilled value, or its normalised rejection reason), in both modes, for
\* every concurrency, completion order and assignment of slots to workers;
\* on the way, every settlement a worker has recorded sits in the slot of the
\* item it belongs to.
C1_SlotCorrespondence ==
    Batch =>
      /\ \A i \in DOMAIN results :
            results[i] # Hole => Ended(i) /\ results[i] = OutcomeOf(i)
      /\ phase = "done" =>
            \A i \in 1..N :
               /\ i \in DOMAIN out.errors /\ i \in DOMAIN out.results
               /\ Ended(i)
               /\ IF Failed(i)
                  THEN /\ out.errors[i] = ErrorOfRejected(op, comp[i].val)
                       /\ out.results[i] = Undefined
                  ELSE /\ out.errors[i] = Undefined
                       /\ out.results[i] = comp[i].val

\* a finished batch of three with different outcomes, in which the second
\* worker came back first and took the third slot
C1_Witness ==
    /\ Done
    /\ N = 3
    /\ owner = <<1, 2, 2>>
    /\ comp[1].state = "fulfilled"
    /\ comp[2].state = "rejected"
    /\ out.results[1] = Str("a")
    /\ out.errors[2] # Undefined

\* C2: for every input of length n, every mode and every concurrency, the
\* array runWithConcurrency returns has length n with no unfilled slot, and
\* the errors and results arrays both have length exactly n.
C2_LengthInvariant ==
    Batch =>
      /\ phase \in {"returned", "done"} =>
            /\ Len(settled) = N
            /\ \A i \in 1..Len(settled) : settled[i] # Hole
      /\ phase = "done" => Len(out.errors) = N /\ Len(out.results) = N
      /\ phase # "rejected"

C2_Witness ==
    /\ Done
    /\ N >= 2
    /\ workers # <<>>
    /\ Len(out.errors) = N
    /\ Len(out.results) = N

\* C3: a batch never aborts early: the call does not return while a slot is
\* unsettled, whatever has failed before, and what it returns holds a
\* settlement of the right kind for every item.
C3_NoEarlyAbort ==
    Batch /\ phase \in {"returned", "done", "rejected"} =>
      /\ phase # "rejected"
      /\ \A i \in 1..N :
            /\ Ended(i)
            /\ i \in DOMAIN settled
            /\ settled[i] # Hole
            /\ settled[i].status = IF Failed(i) THEN "rejected" ELSE "fulfilled"

\* a finished factory batch in which a worker recorded a rejection and then
\* claimed a later slot, whose computation started after the failure and
\* succeeded
C3_Witness ==
    /\ Done
    /\ FactoryBatch
    /\ \E i, j \in 1..N :
          /\ i < j
          /\ owner[i] # 0
          /\ owner[i] = owner[j]
          /\ comp[i].state = "rejected"
          /\ comp[j].state = "fulfilled"
          /\ out.errors[i] # Undefined
          /\ out.results[j] = Str("a")

\* C4: in factory mode with concurrency k > 0, the number of computations
\* started and not yet settled never exceeds k.
C4_ConcurrencyBound ==
    FactoryBatch /\ ConcurrencyOf(options) > 0 =>
       Cardinality(InFlight) <= ConcurrencyOf(options)

\* k = 2 computations in flight while a slot is still unclaimed
C4_Witness ==
    /\ FactoryBatch
    /\ ConcurrencyOf(options) = 2
    /\ Cardinality(InFlight) = 2
    /\ index < N

\* C5: in factory mode with a bound 0 < k < n, the factory of a slot beyond
\* the first k is invoked only after an earlier slot has ended (at most k more
\* factories have been invoked than computations have ended); a factory is
\* invoked only by the worker that claims its slot, never before.
C5_Laziness ==
    FactoryBatch =>
      /\ \A i \in 1..N : attempts[i] > 0 => owner[i] # 0 /\ i <= index
      /\ phase = "idle" => \A i \in 1..N : attempts[i] = 0
      /\ workers = <<>> => \A i \in 1..N : attempts[i] = 0
      /\ ConcurrencyOf(options) > 0 /\ ConcurrencyOf(options) < N =>
            /\ \A j \in 1..N :
                  j > ConcurrencyOf(options) /\ attempts[j] > 0 =>
                     \E i \in 1..(j - 1) : Ended(i)
            /\ Cardinality({i \in 1..N : attempts[i] > 0})
                  <= ConcurrencyOf(options) + Cardinality({i \in 1..N : Ended(i)})

\* k = 1 < n: the second factory has been invoked, after the first slot ended,
\* and the third has not been invoked yet
C5_Witness ==
    /\ FactoryBatch
    /\ N = 3
    /\ ConcurrencyOf(options) = 1
    /\ comp[1].state = "fulfilled"
    /\ comp[2].state = "pending"
    /\ attempts = <<1, 1, 0>>

\* C6: every slot is attempted exactly once per batch: never twice, and once
\* by the time the call returns, whatever the other slots did.
C6_ExactlyOnce ==
    Batch =>
      /\ \A i \in 1..N : attempts[i] <= 1
      /\ phase \in {"returned", "done"} => \A i \in 1..N : attempts[i] = 1
      /\ FactoryBatch => \A i \in 1..N : attempts[i] = 0 <=> comp[i] = NotStarted

\* a finished factory batch whose first item rejected
C6_Witness ==
    /\ Done
    /\ FactoryBatch
    /\ N = 3
    /\ comp[1].state = "rejected"
    /\ \A i \in 1..N : attempts[i] = 1

C8_ErrorIffFailed ==
    /\ op = "goTry" /\ phase = "done" =>
          /\ result[1] = Undefined <=> ~Failed(1)
          /\ Failed(1) => TypeOf(result[1]) = "string"
          /\ isFailure(result) <=> Failed(1)
    /\ op = "goTryAll" /\ phase = "done" =>
          \A i \in 1..N :
             /\ out.errors[i] = Undefined <=> ~Failed(i)
             /\ Failed(i) => TypeOf(out.errors[i]) = "string"

\* C9 as stated: errors[i] is undefined if and only if results[i] is not
\* undefined.
C9_Original ==
    Done => \A i \in 1..N : out.errors[i] = Undefined <=> out.results[i] # Undefined

\* C9 as amended: errors[i] and results[i] are never both defined (a defined
\* result has an undefined error, a defined error has an undefined result); an
\* item that fulfils with undefined has both slots undefined.
C9_AtMostOneDefined ==
    Done =>
      \A i \in 1..N :
         /\ out.results[i] # Undefined => out.errors[i] = Undefined
         /\ out.errors[i] # Undefined => out.results[i] = Undefined
         /\ comp[i] = Fulfilled(Undefined) =>
               out.errors[i] = Undefined /\ out.results[i] = Undefined

\* a finished batch with an item that fulfilled with undefined next to one
\* that failed
C9_Witness ==
    /\ Done
    /\ \E i, j \in 1..N :
          /\ comp[i] = Fulfilled(Undefined)
          /\ out.errors[i] = Undefined
          /\ out.results[i] = Undefined
          /\ Failed(j)
          /\ out.errors[j] # Undefined
          /\ out.results[j] = Undefined

\* C10: for an empty input the call returns at once with two empty arrays,
\* for every concurrency: it never reaches the fast path or the worker pool,
\* starts no worker and claims no index.
C10_EmptyInput ==
    Batch /\ N = 0 =>
      /\ phase \in {"idle", "returned", "done"}
      /\ workers = <<>>
      /\ workerCount = 0
      /\ index = 0
      /\ results = <<>>
      /\ phase = "done" => out = [errors |-> <<>>, results |-> <<>>]

C10_Witness ==
    /\ Done
    /\ N = 0
    /\ ConcurrencyOf(options) > 0
    /\ out = [errors |-> <<>>, results |-> <<>>]

\* the batch runs without a bound: concurrency omitted, 0 or negative
Unlimited == Batch /\ ConcurrencyOf(options) <= 0
\* the call has suspended at its first await, or is past it
HasSuspended == phase \notin {"idle", "spawning"}
Recorded == {i \in DOMAIN results : results[i] # Hole}

\* C11 (as stated): without a bound, in factory mode every factory has been
\* invoked before the settlement of any slot is recorded.
C11_Original ==
    Unlimited /\ FactoryBatch =>
      (Recorded # {} => \A j \in 1..N : attempts[j] >= 1)

\* C11 (amended): without a bound, in factory mode every factory has been
\* invoked once by the time the call first suspends, hence before the
\* settlement of any promise a factory returned is recorded (only the
\* rejection of a factory that threw synchronously is recorded earlier); with
\* pre-started promises all n are subscribed to at once, by the call itself
\* and with no worker; no item waits for another item to settle.
C11_Unlimited ==
    Unlimited /\ N > 0 =>
      /\ HasSuspended => \A j \in 1..N : attempts[j] = 1
      /\ \A i \in Recorded :
            comp[i].state # "threw" => \A j \in 1..N : attempts[j] = 1
      /\ ~FactoryBatch => workers = <<>> /\ results = <<>>

C11_Witness ==
    /\ Unlimited /\ FactoryBatch
    /\ N >= 3
    /\ phase = "waiting"
    /\ \A j \in 1..N : attempts[j] = 1 /\ comp[j].state = "pending"
    /\ Recorded = {}

PromiseBatch == Batch /\ N > 0 /\ items[1].t = "promise"

\* C12: with a positive concurrency k and pre-started promises as items, at
\* every instant from the call to its return no more than k of the item
\* computations are in flight (started and not yet settled).
C12_PromiseModeBound ==
    PromiseBatch /\ ConcurrencyOf(options) > 0 /\ phase \notin {"idle", "done"} =>
      Cardinality(InFlight) <= ConcurrencyOf(options)

\* the message the normalisation policy prescribes for a caught value
ReferenceMessage(v) ==
    CASE v.t = "undefined" -> Str("undefined")
      [] v.t = "string" -> v
      [] v.t = "error" /\ v.message.t = "string" -> v.message
      [] /\ v.t = "object"
         /\ \E i \in 1..Len(v.fields) :
               v.fields[i].k = "message" /\ v.fields[i].v.t = "string"
         -> (LET i == CHOOSE j \in 1..Len(v.fields) : v.fields[j].k = "message"
             IN v.fields[i].v)
      [] OTHER -> IF JSONThrows(v) THEN Str(StringOf(v)) ELSE JSONStringify(v)

SingleDone(o) == op = o /\ phase = "done"

\* C13: the error slot goTry, goTryOr and goTryAll produce for a failure is
\* the reference message of the caught value: "undefined" for undefined; a
\* string unchanged; the message field of a non-null object whose message is
\* a string; otherwise the JSON serialisation of the value, or String(value)
\* when the serialisation throws.
C13_MessageNormalisation ==
    /\ (SingleDone("goTry") \/ SingleDone("goTryOr")) /\ Failed(1) =>
          result[1] = ReferenceMessage(comp[1].val)
    /\ op = "goTryAll" /\ phase = "done" =>
          \A i \in 1..N : Failed(i) => out.errors[i] = ReferenceMessage(comp[i].val)

C13_Witness ==
    /\ SingleDone("goTryOr")
    /\ comp[1] = RejectedWith(PlainObj(<<[k |-> "a", v |-> Num(1)]>>, TRUE))
    /\ result[1] = Str("[object Object]")

RawOps == {"goTryRaw", "goTryAllRaw"}
\* the slots of a finished call: 1..n of a batch, 1 of a single operation
Slots == IF Batch THEN 1..N ELSE {1}
\* the error a finished call reports for slot i
ErrorSlot(i) == IF Batch THEN out.errors[i] ELSE result[1]
\* the value that was thrown, or that the promise rejected with
Caught(i) == comp[i].val
\* the class an untagged failure is wrapped in when errorClass is absent
WrapperTag ==
    IF options.systemErrorClass = Undefined THEN "UnknownError"
    ELSE options.systemErrorClass.tag
\* the message the raw flavor gives a wrapper
RawMessage(v) ==
    CASE v.t = "undefined" -> "undefined"
      [] v.t = "error" -> v.message.s
      [] OTHER -> StringOf(v)
\* the caught value is an Error carrying a string _tag
Tagged(v) == v.t = "error" /\ v.tag.t = "string"

InstanceOf(e, cls) == e.t = "error" /\ e.cls = cls.tag /\ e.tag = Str(cls.tag)

\* C15 (as stated): with errorClass supplied, every failure of goTryRaw and
\* goTryAllRaw, whatever was caught, is reported as an instance of errorClass
\* whose cause is the caught value.
C15_Original ==
    op \in RawOps /\ phase = "done" /\ options.errorClass # Undefined =>
      \A i \in Slots :
         Failed(i) =>
            /\ InstanceOf(ErrorSlot(i), options.errorClass)
            /\ ErrorSlot(i).cause = Caught(i)

\* C15 (amended): with errorClass supplied, every failure of goTryRaw and
\* goTryAllRaw is reported as a new instance of errorClass with the message
\* the raw flavor gives a wrapper; its cause is the caught value when that
\* value is an Error (tagged or plain), and is undefined when the caught value
\* is not an Error.
C15_ErrorClassWrapsAll ==
    op \in RawOps /\ phase = "done" /\ options.errorClass # Undefined =>
      \A i \in Slots :
         Failed(i) =>
            /\ InstanceOf(ErrorSlot(i), options.errorClass)
            /\ ErrorSlot(i).message = Str(RawMessage(Caught(i)))
            /\ ErrorSlot(i).cause =
                  (IF Caught(i).t = "error" THEN Caught(i) ELSE Undefined)
            /\ ErrorSlot(i) # Caught(i)

C15_Witness ==
    /\ op = "goTryRaw" /\ phase = "done"
    /\ options.errorClass = taggedError("DatabaseError")
    /\ Failed(1) /\ Tagged(Caught(1)) /\ Caught(1).cls = "DatabaseError"
    /\ InstanceOf(result[1], options.errorClass)
    /\ result[1].cause = Caught(1)
    /\ result[1] # Caught(1)

\* the value a successful single operation produced
SuccessValue ==
    IF comp[1].state \in {"fulfilled", "returned"} THEN comp[1].val ELSE items[1]
\* how often goTryOr has called the function given as defaultValue
DefaultCalls == attempts[2]
FunctionDefault == items[2].t = "function"

\* C16: goTryOr returns [undefined, value] on success without evaluating the
\* default, and [message, default] on failure, thrown or rejected; a function
\* given as default is called only after the failure, exactly once per
\* failing call, and never on success.
C16_GoTryOr ==
    op = "goTryOr" =>
      /\ DefaultCalls <= 1
      /\ DefaultCalls = 1 => Failed(1) /\ FunctionDefault
      /\ phase = "done" /\ ~Failed(1) =>
            /\ result = <<Undefined, SuccessValue>>
            /\ DefaultCalls = 0
      /\ phase = "done" /\ Failed(1) =>
            /\ result[1] = ReferenceMessage(Caught(1))
            /\ result[2] = (IF FunctionDefault THEN DefaultComputed ELSE items[2])
            /\ DefaultCalls = (IF FunctionDefault THEN 1 ELSE 0)

C16_Witness ==
    /\ SingleDone("goTryOr")
    /\ FunctionDefault
    /\ comp[1] = RejectedWith(PlainError("boom"))
    /\ result = <<Str("boom"), DefaultComputed>>
    /\ DefaultCalls = 1

Single == op \in SingleOps
\* the input produced no promise: a plain value, or a function that returned
\* a plain value or threw
NoPromise == comp[1].state \in {"notstarted", "returned", "threw"}

\* C17 (as stated): a single-operation wrapper returns its tuple synchronously
\* if and only if the input was synchronous and succeeded without producing a
\* promise.
C17_Original ==
    Single /\ phase = "done" => (sync <=> NoPromise /\ ~Failed(1))

\* C17 (amended): a single-operation wrapper returns its tuple synchronously
\* if and only if the input produced no promise, that is when it is a plain
\* value or a function that returned a plain value or threw synchronously;
\* when the input is a promise or a function that returned one, the call
\* returns a promise and the tuple exists only once that promise has settled.
C17_SyncIffNoPromise ==
    Single =>
      /\ phase = "done" => (sync <=> NoPromise)
      /\ phase = "pending" => ~sync /\ result = <<>> /\ ~NoPromise
      /\ result # <<>> /\ ~sync => IsSettled(comp[1])

C17_Witness ==
    /\ SingleDone("goTryRaw")
    /\ comp[1] = Threw(PlainError("boom"))
    /\ sync
    /\ isFailure(result)

\* C18: in factory mode the slot of a factory that threw synchronously holds
\* the settlement a factory returning a promise rejected with the same value
\* gets (status rejected with the thrown value as reason, hence the error
\* slot normalised from it and the result slot undefined), and the worker
\* that called the factory goes on to claim the next remaining slot.
C18_SyncThrowIsRejection ==
    FactoryBatch =>
      /\ \A i \in 1..N :
            /\ comp[i].state = "threw" => results[i] = RejectedResult(Caught(i))
            /\ comp[i].state = "rejected" /\ results[i] # Hole =>
                  results[i] = RejectedResult(Caught(i))
      /\ \A i \in 1..N - 1 :
            comp[i].state = "threw" =>
               IF owner[i + 1] = 0 THEN workers[owner[i]].pc = "running"
               ELSE owner[i + 1] = owner[i]
      /\ phase = "done" =>
            \A i, j \in 1..N :
               /\ Failed(i) => out.results[i] = Undefined
               /\ Failed(i) /\ Failed(j) /\ Caught(i) = Caught(j) =>
                     out.errors[i] = out.errors[j]

C18_Witness ==
    /\ FactoryBatch /\ op = "goTryAll" /\ phase = "done"
    /\ \E i, j \in 1..N :
          /\ i < N
          /\ comp[i] = Threw(PlainError("fail1"))
          /\ comp[j] = RejectedWith(PlainError("fail1"))
          /\ owner[i + 1] = owner[i]
          /\ out.errors[i] = Str("fail1") /\ out.errors[j] = Str("fail1")
          /\ out.results[i] = Undefined /\ out.results[j] = Undefined

\* runWithConcurrency has returned its settlements to goTryAll / goTryAllRaw
HasReturned == Batch /\ phase \in {"returned", "done"}
\* the call went through the worker pool, not through Promise.allSettled
PoolPath == workerCount > 0

\* C19: goTryAll / goTryAllRaw do not return before every slot has settled:
\* when the call has returned, the cursor is exhausted, every slot has been
\* claimed, the computation of every slot has ended and its settlement is
\* recorded; hence, as long as a computation that was started has not
\* settled, the call has not returned.
C19_ReturnsAfterAllSettled ==
    /\ HasReturned =>
          /\ PoolPath => index = N /\ \A w \in 1..Len(workers) : workers[w].pc = "done"
          /\ Len(settled) = N
          /\ \A i \in 1..N :
                attempts[i] >= 1 /\ Ended(i) /\ settled[i] = OutcomeOf(i)
    /\ Batch /\ (\E i \in 1..N : comp[i].state = "pending") =>
          phase \notin {"returned", "done"}

C19_Witness ==
    /\ HasReturned /\ PoolPath
    /\ N >= 3
    /\ workerCount = 2
    /\ index = N
    /\ \E i, j \in 1..N : comp[i].state = "rejected" /\ comp[j].state = "fulfilled"

\* C20: when every computation in flight eventually settles, a goTryAll /
\* goTryAllRaw call eventually returns its two arrays, for every n, both
\* modes and every concurrency: every slot is eventually claimed (invoked or
\* awaited) and every worker eventually returns.
C20_Termination ==
    <>(Batch =>
         /\ phase = "done"
         /\ \A i \in 1..N : attempts[i] >= 1
         /\ \A w \in 1..Len(workers) : workers[w].pc = "done")

C20_Witness ==
    /\ Done /\ FactoryBatch
    /\ N >= 3
    /\ workerCount = 1
    /\ \A i \in 1..N : owner[i] = 1 /\ comp[i].state = "fulfilled"

\* the pair of arrays that the outcomes of the items determine, whichever
\* path produced the settlements
OutOfOutcomes ==
    [errors |-> [i \in 1..N |->
                    IF comp[i].state = "fulfilled" THEN Undefined
                    ELSE ErrorOfRejected(op, Caught(i))],
     results |-> [i \in 1..N |->
                    IF comp[i].state = "fulfilled" THEN comp[i].val ELSE Undefined]]

\* C21: for pre-started promises the fast path (concurrency <= 0,
\* Promise.allSettled) and the worker pool (concurrency k > 0) return the
\* same [errors, results]: on either path the pair is the one function of
\* the items' outcomes, whatever the concurrency and the order of settling.
C21_FastPathEqualsPool ==
    PromiseBatch /\ phase = "done" =>
      /\ out = OutOfOutcomes
      /\ PoolPath <=> ConcurrencyOf(options) > 0

C21_Witness ==
    /\ PromiseBatch /\ phase = "done" /\ PoolPath
    /\ N >= 3
    /\ workerCount = 2
    /\ \E i, j \in 1..N : i < j /\ comp[i].state = "rejected" /\ comp[j].state = "fulfilled"
    /\ out = OutOfOutcomes

\* the slots that have been claimed through the cursor
Claimed == {i \in 1..N : owner[i] # 0}

\* in every state of the pool: the claimed slots are those below the cursor,
\* each claimed once and by one worker that exists, and a recorded slot is a
\* claimed one
C22_State ==
    Batch /\ PoolPath =>
      /\ index \in 0..N
      /\ Claimed = 1..index
      /\ \A i \in 1..N :
            /\ attempts[i] = (IF i \in Claimed THEN 1 ELSE 0)
            /\ owner[i] \in 0..Len(workers)
      /\ Recorded \subseteq Claimed
      /\ HasReturned => Claimed = 1..N /\ Recorded = 1..N

\* in every step: the cursor never decreases, it is read and advanced by one
\* in the very step that makes the claim, a claim is never taken from its
\* worker, and a slot is written only while it is empty and only by the
\* worker that claimed it
C22_Step ==
    /\ index' >= index
    /\ index' # index =>
          /\ index' = index + 1
          /\ owner[index'] = 0 /\ owner'[index'] # 0
          /\ workers'[owner'[index']].currentIndex = index
    /\ \A i \in 1..N : owner[i] # 0 => owner'[i] = owner[i]
    /\ \A i \in DOMAIN results :
          results'[i] # results[i] =>
             /\ results[i] = Hole
             /\ owner'[i] # 0
             /\ workers'[owner'[i]].currentIndex = i - 1
             /\ workers'[owner'[i]] # workers[owner'[i]]
             /\ \A w \in DOMAIN workers : w # owner'[i] => workers'[w] = workers[w]

\* C22: under every interleaving of the workers no index is claimed by more
\* than one worker and every index 0..n-1 is claimed by exactly one; each
\* settlement slot is written once, by the worker that claimed it, and is not
\* overwritten; the cursor only increases, and it is read and incremented in
\* one step.
C22_ClaimsAndWrites == []C22_State /\ [][Batch => C22_Step]_vars

C22_Witness ==
    /\ Batch /\ PoolPath /\ workerCount = 2
    /\ N >= 3
    /\ {1, 2} \subseteq Recorded /\ 3 \notin Recorded
    /\ owner[1] # owner[2]
    /\ owner[3] = owner[2]

\* the call is suspended and no continuation of it is ready to run: every
\* worker that awaits, awaits a computation that is still in flight
Quiescent ==
    /\ phase = "waiting"
    /\ Suspended
    /\ \A w \in 1..Len(workers) :
          workers[w].pc = "awaiting" => comp[workers[w].currentIndex + 1].state = "pending"
\* the executor has attached a handler to (awaits) the computation of slot i
Handled(i) == attempts[i] >= 1

\* C23: in both modes and for every concurrency, at no point during the
\* batch does an input computation sit rejected with no handler of the
\* executor attached to it; checked at the points where the call is suspended
\* with nothing of its own ready to run, where the runtime reports a
\* rejection that has no handler.
C23_NoUnhandledRejection ==
    Batch /\ Quiescent =>
      \A i \in 1..N : comp[i].state = "rejected" => Handled(i)

\* the error the raw flavor is to report for a caught value under the
\* options of the call
ReferenceRawError(v) ==
    LET cause == IF v.t = "error" THEN v ELSE Undefined
    IN IF options.errorClass # Undefined
       THEN ErrorObj(options.errorClass.tag, Str(options.errorClass.tag),
                     Str(RawMessage(v)), cause)
       ELSE IF Tagged(v) THEN v
       ELSE ErrorObj(WrapperTag, Str(WrapperTag), Str(RawMessage(v)), cause)
\* the [error, value] tuple that one outcome gives in each flavor
TupleOfOutcome(raw) ==
    IF Failed(1)
    THEN <<IF raw THEN ReferenceRawError(Caught(1)) ELSE ReferenceMessage(Caught(1)),
           Undefined>>
    ELSE <<Undefined, SuccessValue>>
\* a finished batch of one item
BatchOfOne(o) == op = o /\ phase = "done" /\ N = 1

\* C24: a batch of one item gives the outcome the single-operation wrapper
\* of its flavor gives: for every outcome of the item, goTryAll([x]) returns
\* [[e], [v]] where goTry yields [e, v], and goTryAllRaw([x], opts) returns
\* the error (class, message and cause) and the value goTryRaw yields under
\* the same errorClass / systemErrorClass.
C24_BatchOfOne ==
    /\ SingleDone("goTry") => result = TupleOfOutcome(FALSE)
    /\ BatchOfOne("goTryAll") =>
          <<out.errors[1], out.results[1]>> = TupleOfOutcome(FALSE)
    /\ SingleDone("goTryRaw") => result = TupleOfOutcome(TRUE)
    /\ BatchOfOne("goTryAllRaw") =>
          <<out.errors[1], out.results[1]>> = TupleOfOutcome(TRUE)

C24_Witness ==
    /\ BatchOfOne("goTryAllRaw")
    /\ options.systemErrorClass = taggedError("SystemError")
    /\ comp[1] = RejectedWith(Str("string error"))
    /\ out.errors[1] = ErrorObj("SystemError", Str("SystemError"),
                                Str("string error"), Undefined)
    /\ out.results[1] = Undefined

\* the caught value is an object, Error or not, with a string message field
ExposesMessage(v) ==
    /\ v.t \in {"error", "object"}
    /\ HasMessage(v)
    /\ MessageOf(v).t = "string"

\* C25: in the raw flavor, under every wrapping policy, a caught object that
\* exposes a string message field, Error instance or not, is reported as an
\* error object whose message is that field verbatim, the string the message
\* flavor reports for the same value.
C25_RawMessageVerbatim ==
    op \in RawOps /\ phase = "done" =>
      \A i \in Slots :
         Failed(i) /\ ExposesMessage(Caught(i)) =>
            /\ ErrorSlot(i).message = MessageOf(Caught(i))
            /\ ErrorSlot(i).message = getErrorMessage(Caught(i))

\* C26: two goTryAll / goTryAllRaw invocations whose workers interleave on
\* one event loop do not interfere: whichever invocation runs, its cursor
\* counts its own claims, its settlement array holds the outcomes of its own
\* items, it never rejects, and it returns the pair its own items' outcomes
\* determine, as it does when run alone.
C26_NoInterference ==
    /\ phase # "rejected"
    /\ \A w \in 1..Len(workers) : workers[w].pc # "failed"
    /\ PoolPath =>
          /\ Claimed = 1..index
          /\ Len(results) = N
          /\ \A i \in 1..N : attempts[i] = (IF i \in Claimed THEN 1 ELSE 0)
          /\ \A i \in Recorded : Ended(i) /\ results[i] = OutcomeOf(i)
    /\ phase = "done" => out = OutOfOutcomes

\* both invocations are under way, at different cursors
C26_Witness ==
    /\ other # NoInvocation
    /\ phase = "waiting" /\ other.phase = "waiting"
    /\ index = 1 /\ Recorded = {}
    /\ other.index = 2 /\ other.results[1] # Hole /\ other.results[2] = Hole

\* the slots worker w has claimed
SlotsOf(w) == {i \in 1..N : owner[i] = w}
\* worker w has run its first synchronous stretch
HasRun(w) == w \in 1..Len(workers) /\ workers[w].pc # "running"

\* C27: on the worker-pool path min(concurrency, n) workers are started when
\* concurrency > 0 and n when concurrency <= 0, never more than there are
\* items; every started worker claims at least one slot, unless the workers
\* started before it have drained the cursor synchronously (through
\* factories that threw), in which case it returns at once.
C27_WorkerCount ==
    Batch /\ PoolPath =>
      /\ workerCount =
            (IF ConcurrencyOf(options) > 0
             THEN (IF ConcurrencyOf(options) < N THEN ConcurrencyOf(options) ELSE N)
             ELSE N)
      /\ workerCount <= N
      /\ Len(workers) <= workerCount
      /\ HasSuspended => Len(workers) = workerCount
      /\ \A w \in 1..Len(workers) :
            HasRun(w) /\ SlotsOf(w) = {} =>
               /\ workers[w].pc = "done"
               /\ index = N
               /\ \A i \in 1..N : owner[i] \in 1..w - 1
               /\ \E i \in 1..N : comp[i].state = "threw"

C27_Witness ==
    /\ FactoryBatch /\ PoolPath /\ HasSuspended
    /\ N >= 3
    /\ Len(workers) = 2
    /\ SlotsOf(1) = 1..N
    /\ SlotsOf(2) = {}
    /\ workers[2].pc = "done"

(***************************************************************************)
(* Mixed arrays                                                            *)
(***************************************************************************)
\* the executor has begun and decided its mode
Begun == Batch /\ N > 0 /\ phase # "idle"
\* what calling an item that is no function throws
NotAFunction == PlainError("item is not a function")
\* the items of the batch that are functions
Functions == {i \in 1..N : TypeOf(items[i]) = "function"}

\* C28: the mode is decided once from items[0] and applied to every element.
\* When items[0] is no function, no element is ever invoked: a later function
\* is awaited as a plain value and comes back as the result of its slot.
\* When items[0] is a function, every element is invoked: a later element
\* that is no function is recorded as a rejected slot (the TypeError of the
\* call), the functions are all invoked, and every slot of the returned
\* tuple is the outcome of its own element.
C28_ModeFromFirstElement ==
    Begun =>
      /\ isFactoryMode = (TypeOf(items[1]) = "function")
      /\ ~isFactoryMode =>
            /\ \A i \in Functions :
                  /\ comp[i] \in {NotStarted, Fulfilled(items[i])}
                  /\ i \in Recorded => results[i] = FulfilledResult(items[i])
                  /\ Done => /\ out.errors[i] = Undefined
                             /\ out.results[i] = items[i]
      /\ isFactoryMode =>
            /\ \A i \in (1..N) \ Functions :
                  /\ owner[i] # 0 =>
                        /\ comp[i] = Threw(NotAFunction)
                        /\ results[i] = RejectedResult(NotAFunction)
                  /\ Done => /\ out.errors[i] = ErrorOfRejected(op, NotAFunction)
                             /\ out.results[i] = Undefined
            /\ Done => \A i \in Functions :
                          attempts[i] = 1 /\ comp[i] # NotStarted
      /\ phase # "rejected"
      /\ Done => out = OutOfOutcomes

\* a function, then a promise, then a function: the promise's slot is
\* rejected and the functions around it have delivered their values
C28_Witness ==
    /\ Done /\ isFactoryMode
    /\ N = 3
    /\ Functions = {1, 3}
    /\ out.errors[2] = ErrorOfRejected(op, NotAFunction)
    /\ out.results[1] = Str("a")
    /\ out.results[3] = Str("a")

\* a promise, then a function: the function comes back uninvoked
C28_WitnessPromiseMode ==
    /\ Done /\ ~isFactoryMode
    /\ Functions # {}
    /\ \A i \in Functions : out.results[i] = items[i] /\ attempts[i] = 1
    /\ PoolPath

(***************************************************************************)
(* Work conservation                                                       *)
(***************************************************************************)
\* no factory of the batch has thrown synchronously
AsyncOnly == \A i \in 1..N : comp[i].state # "threw"
\* a factory batch with a positive concurrency whose workers are all
\* suspended while a slot is still unclaimed
PoolWaiting ==
    /\ FactoryBatch /\ ConcurrencyOf(options) > 0 /\ AsyncOnly
    /\ phase = "waiting" /\ Suspended
    /\ index < N
MinKN == IF ConcurrencyOf(options) < N THEN ConcurrencyOf(options) ELSE N
\* the workers whose awaited computation has settled and whose continuation
\* has not run yet
Unresumed ==
    {w \in 1..Len(workers) :
        workers[w].pc = "awaiting" /\ IsSettled(comp[workers[w].currentIndex + 1])}

\* C29 as stated: whenever all workers are suspended and an unclaimed slot
\* remains, exactly min(k, n) computations are in flight.
C29_Original ==
    PoolWaiting => Cardinality(InFlight) = MinKN

\* C29: in factory mode with concurrency k > 0 and computations that settle
\* asynchronously, whenever all workers are suspended and an unclaimed slot
\* remains, all min(k, n) workers are alive, each awaiting a slot of its own,
\* and the computations in flight are those of the workers whose awaited
\* computation has not settled: min(k, n) less the settlements whose worker
\* has not resumed yet, hence exactly min(k, n) when there is none. The peak
\* is min(k, n): it is the number in flight when the call first suspends,
\* and it is never exceeded.
C29_WorkConserving ==
    /\ PoolWaiting =>
          /\ Len(workers) = MinKN
          /\ \A w \in 1..Len(workers) : workers[w].pc = "awaiting"
          /\ \A w, x \in 1..Len(workers) :
                workers[w].currentIndex = workers[x].currentIndex => w = x
          /\ InFlight = {workers[w].currentIndex + 1 :
                             w \in (1..Len(workers)) \ Unresumed}
          /\ Cardinality(InFlight) = MinKN - Cardinality(Unresumed)
          /\ Unresumed = {} => Cardinality(InFlight) = MinKN
    /\ FactoryBatch /\ ConcurrencyOf(options) > 0 /\ AsyncOnly =>
          /\ Cardinality(InFlight) <= MinKN
          /\ phase = "waiting" /\ (\A i \in 1..N : ~Ended(i)) =>
                Cardinality(InFlight) = MinKN

\* two workers over three factories: both workers await a pending
\* computation while the third slot is unclaimed
C29_Witness ==
    /\ PoolWaiting
    /\ N = 3 /\ ConcurrencyOf(options) = 2
    /\ Unresumed = {}
    /\ InFlight = {1, 2}
    /\ owner[3] = 0

(***************************************************************************)
(* Order of invocation                                                     *)
(***************************************************************************)
\* the slots whose factory has been invoked
Invoked == {i \in 1..N : attempts[i] >= 1}

\* the factories invoked so far are those of the first slots, with no gap
C30_State == FactoryBatch => Invoked = 1..Cardinality(Invoked)

\* a step invokes at most one factory, that of the first slot not yet invoked
C30_Step ==
    \/ Invoked' = Invoked
    \/ Invoked' = Invoked \cup {Cardinality(Invoked) + 1}

\* C30: in factory mode the factories are invoked in input order: for every
\* i < j the factory of slot i is invoked before the factory of slot j, for
\* every interleaving, concurrency and pattern of completion times, while
\* the settlements may be recorded in any order.
C30_InvokedInInputOrder == []C30_State /\ [][FactoryBatch => C30_Step]_vars

\* every factory has been invoked, in order, and the last slot's settlement
\* is recorded while the slots before it are still empty
C30_Witness ==
    /\ FactoryBatch /\ N = 3
    /\ Invoked = 1..N
    /\ Recorded = {3}
    /\ comp[1].state = "pending"

====
